---- MODULE Spec2Model ----
(***************************************************************************)
(* SPIR-V lowering of ray-query and ray-tracing statements                 *)
(* (naga/src/back/spv/ray.rs).  The state is the writer's mutable          *)
(* compilation state (id counter, type cache, constant cache, declaration  *)
(* section), the block being filled, and the per-function Value Cache.     *)
(* One action lowers one statement; a panic of the Rust code stops the     *)
(* translation in the state the panic leaves behind.                       *)
(***************************************************************************)
EXTENDS Integers, Sequences, FiniteSets, TLC

VARIABLES
    id_gen,            \* writer.id_gen: the last identifier handed out
    lookup_type,       \* writer.lookup_type: type key -> type id (0: absent)
    cached_constants,  \* writer.cached_constants: u32 literal -> id (0: absent)
    declarations,      \* writer.logical_layout.declarations
    body,              \* block.body
    cached,            \* self.cached: expression handle -> id (0: not cached)
    ray_intersection,  \* ir_module.special_types.ray_intersection (registered?)
    status,            \* "ok", "abort" (panic) or "err" (Err returned)
    calls,             \* number of statements lowered so far
    last               \* the last lowering call: its arguments and pre-state marks

\* examples/src/water_rtx: the frame gate of the example application
VARIABLES
    current_frame,     \* Example::current_frame
    active,            \* Example::active: None or Some(frame)
    frame_log          \* the last call on the example and what it did

example_vars == <<current_frame, active, frame_log>>

vars == <<id_gen, lookup_type, cached_constants, declarations, body, cached,
          ray_intersection, status, calls, last>>

----------------------------------------------------------------------------
(* Bounds of the model *)

\* statements lowered in one run
MaxCalls == 3
\* frames rendered in one run of the example
MaxFrames == 6
\* expression handles that stand for results not lowered yet
NumResults == 2

----------------------------------------------------------------------------
(* The function being lowered: its expression arena *)

AccHandle == 1            \* acceleration structure (a global variable)
DescHandle == 2           \* ray descriptor value
QueryHandle == 3          \* ray query
PayloadHandle == 4        \* ray payload
HitTHandle == 5           \* hit distance
HitKindHandle == 6        \* hit kind
IntersectionHandle == 7   \* candidate intersection attributes
Unlowered == 8            \* an expression no earlier statement has lowered
FirstResult == 9

ResultHandles == FirstResult .. (FirstResult + NumResults - 1)
Handles == 1 .. (FirstResult + NumResults - 1)

\* fun_info[h].ty of a result expression
ExprTy(h) == IF h = FirstResult THEN "bool" ELSE "u32"

LocalTypes == {"u32", "f32", "bool", "vec2<f32>", "vec3<f32>", "mat4x3<f32>"}
PayloadTys == {"Handle(Payload)"}
IntersectionTys == {"vec2<f32>", "f32"}
HandleTypes == {"Handle(RayIntersection)"} \cup PayloadTys
PointerTypes == {"ptr<RayPayloadKHR," \o t \o ">" : t \in PayloadTys}
TypeKeys == LocalTypes \cup HandleTypes \cup PointerTypes

U32Literals == 0 .. 1

\* spirv::RayQueryIntersection::RayQueryCommittedIntersectionKHR
RayQueryCommittedIntersectionKHR == 1

----------------------------------------------------------------------------
(* Instruction records: opcode, result type id, result id, operand words *)

Inst(op, type, id, operands) ==
    [op |-> op, type |-> type, id |-> id, operands |-> operands]

composite_extract(result_type_id, id, composite_id, indices) ==
    Inst("OpCompositeExtract", result_type_id, id, <<composite_id>> \o indices)

composite_construct(result_type_id, id, constituents) ==
    Inst("OpCompositeConstruct", result_type_id, id, constituents)

ray_query_initialize(operands) ==
    Inst("OpRayQueryInitializeKHR", 0, 0, operands)

ray_query_proceed(result_type_id, id, query_id) ==
    Inst("OpRayQueryProceedKHR", result_type_id, id, <<query_id>>)

ray_query_get_intersection(op, result_type_id, id, query_id, intersection_id) ==
    Inst(op, result_type_id, id, <<query_id, intersection_id>>)

\* Instruction::copy(target, source, memory_access)
copy(target_id, source_id) ==
    Inst("OpCopyMemory", 0, 0, <<target_id, source_id>>)

trace_ray(operands) ==
    Inst("OpTraceRayKHR", 0, 0, operands)

\* Instruction::store(pointer_id, value_id, memory_access)
store(pointer_id, value_id) ==
    Inst("OpStore", 0, 0, <<pointer_id, value_id>>)

report_intersection(result_type_id, id, hit_t_id, hit_kind_id) ==
    Inst("OpReportIntersectionKHR", result_type_id, id, <<hit_t_id, hit_kind_id>>)

\* declarations: a type (key = its structure), a variable, a constant
type_decl(id, key) ==
    [op |-> "OpType", type |-> 0, id |-> id, key |-> key]

\* Instruction::type_pointer(id, storage_class, type_id)
type_pointer(id, storage_class, type_id) ==
    [op |-> "OpTypePointer", type |-> 0, id |-> id,
     key |-> <<storage_class, type_id>>]

\* Instruction::variable(result_type_id, id, storage_class, initializer)
variable(result_type_id, id, storage_class) ==
    [op |-> "OpVariable", type |-> result_type_id, id |-> id,
     key |-> <<storage_class>>]

constant_decl(id, value) ==
    [op |-> "OpConstant", type |-> 0, id |-> id, key |-> <<value>>]

----------------------------------------------------------------------------
(* The writer state threaded through one call, and the collaborators of    *)
(* the lowering routines.  A step on a state that is no longer "ok" does   *)
(* nothing: the Rust call has already unwound.                             *)

Writer ==
    [id_gen |-> id_gen, lookup_type |-> lookup_type,
     cached_constants |-> cached_constants, declarations |-> declarations,
     body |-> body, cached |-> cached, status |-> status, ret |-> 0]

Ok(w) == w.status = "ok"

\* F applied to the value of v: v is evaluated once, as a Rust `let` does
Bind(v, F(_)) == CHOOSE r \in {F(x) : x \in {v}} : TRUE

abort(w) == [w EXCEPT !.status = "abort"]

\* self.gen_id(): writer.id_gen.next()
gen_id(w) ==
    IF ~Ok(w) THEN w
    ELSE [w EXCEPT !.id_gen = @ + 1, !.ret = w.id_gen + 1]

\* self.cached[h] (read): panics when the expression is not cached
cached_index(w, h) ==
    IF ~Ok(w) THEN w
    ELSE IF w.cached[h] = 0 THEN abort(w)
    ELSE [w EXCEPT !.ret = w.cached[h]]

\* self.cached[h] = id (write): panics when the expression is already cached
cached_index_mut(w, h, id) ==
    IF ~Ok(w) THEN w
    ELSE IF w.cached[h] # 0 THEN abort(w)
    ELSE [w EXCEPT !.cached[h] = id]

\* self.get_handle_id(h): the id of a global handle, else the cached id
get_handle_id(w, h) ==
    IF ~Ok(w) THEN w
    ELSE IF h = AccHandle THEN [w EXCEPT !.ret = 1]
    ELSE cached_index(w, h)

\* self.get_type_id(lookup): the Type Interner
get_type_id(w, key) ==
    IF ~Ok(w) THEN w
    ELSE IF w.lookup_type[key] # 0 THEN [w EXCEPT !.ret = w.lookup_type[key]]
    ELSE IF key \in HandleTypes THEN abort(w)
    ELSE LET id == w.id_gen + 1
         IN [w EXCEPT !.id_gen = id,
                      !.lookup_type[key] = id,
                      !.declarations = Append(@, type_decl(id, key)),
                      !.ret = id]

\* writer.get_constant_scalar(Literal::U32(value))
get_constant_scalar(w, value) ==
    IF ~Ok(w) THEN w
    ELSE IF w.cached_constants[value] # 0
         THEN [w EXCEPT !.ret = w.cached_constants[value]]
    ELSE LET id == w.id_gen + 1
         IN [w EXCEPT !.id_gen = id,
                      !.cached_constants[value] = id,
                      !.declarations = Append(@, constant_decl(id, value)),
                      !.ret = id]

\* self.get_index_constant(index)
get_index_constant(w, index) == get_constant_scalar(w, index)

\* faulty variant: the instruction is inserted at the head of the block
push_front(w, instruction) ==
    IF ~Ok(w) THEN w
    ELSE [w EXCEPT !.body = <<instruction>> \o @]

\* block.body.push(instruction)
push(w, instruction) ==
    IF ~Ok(w) THEN w
    ELSE [w EXCEPT !.body = Append(@, instruction)]

----------------------------------------------------------------------------
(* write_ray_query_function *)

\* faulty variant: an id is allocated and dropped before the one that is used
extract_field_skipping(w, type_id, desc_id, index) ==
    Bind(gen_id(w), LAMBDA g0 :
    Bind(gen_id(g0), LAMBDA g :
    push(g, composite_extract(type_id, g.ret, desc_id, <<index>>))))

\* id = gen_id(); push(composite_extract(type_id, id, desc_id, &[index]))
extract_field(w, type_id, desc_id, index) ==
    Bind(gen_id(w), LAMBDA g :
    push(g, composite_extract(type_id, g.ret, desc_id, <<index>>)))

\* faulty variant: the cull mask read from field 0 again
initialize_extract_desc_repeated_index(w, desc_id) ==
    Bind(get_type_id(w, "u32"), LAMBDA t1 :
    Bind(extract_field(t1, t1.ret, desc_id, 0), LAMBDA e0 :
    Bind(extract_field(e0, t1.ret, desc_id, 0), LAMBDA e1 :
    Bind(get_type_id(e1, "f32"), LAMBDA t2 :
    Bind(extract_field(t2, t2.ret, desc_id, 2), LAMBDA e2 :
    Bind(extract_field(e2, t2.ret, desc_id, 3), LAMBDA e3 :
    Bind(get_type_id(e3, "vec3<f32>"), LAMBDA t3 :
    Bind(extract_field(t3, t3.ret, desc_id, 4), LAMBDA e4 :
    Bind(extract_field(e4, t3.ret, desc_id, 5), LAMBDA e5 :
    [e5 EXCEPT !.ret = <<e0.ret, e1.ret, e2.ret, e3.ret, e4.ret, e5.ret>>]
    )))))))))

\* lines 27-85: the six fields of the ray descriptor, extracted in order;
\* yields <<ray_flags_id, cull_mask_id, tmin_id, tmax_id, ray_origin_id, ray_dir_id>>
initialize_extract_desc(w, desc_id) ==
    Bind(get_type_id(w, "u32"), LAMBDA t1 :
    Bind(extract_field(t1, t1.ret, desc_id, 0), LAMBDA e0 :
    Bind(extract_field(e0, t1.ret, desc_id, 1), LAMBDA e1 :
    Bind(get_type_id(e1, "f32"), LAMBDA t2 :
    Bind(extract_field(t2, t2.ret, desc_id, 2), LAMBDA e2 :
    Bind(extract_field(e2, t2.ret, desc_id, 3), LAMBDA e3 :
    Bind(get_type_id(e3, "vec3<f32>"), LAMBDA t3 :
    Bind(extract_field(t3, t3.ret, desc_id, 4), LAMBDA e4 :
    Bind(extract_field(e4, t3.ret, desc_id, 5), LAMBDA e5 :
    [e5 EXCEPT !.ret = <<e0.ret, e1.ret, e2.ret, e3.ret, e4.ret, e5.ret>>]
    )))))))))

\* faulty variant: the extracted ids passed in descriptor field order
initialize_operands_field_order(query_id, acc_struct_id, ray_flags_id, cull_mask_id, tmin_id, tmax_id, ray_origin_id, ray_dir_id) ==
    <<query_id, acc_struct_id, ray_flags_id, cull_mask_id,
      tmin_id, tmax_id, ray_origin_id, ray_dir_id>>

\* lines 87-96: the argument list of Instruction::ray_query_initialize
initialize_operands(query_id, acc_struct_id, ray_flags_id, cull_mask_id, tmin_id, tmax_id, ray_origin_id, ray_dir_id) ==
    <<query_id, acc_struct_id, ray_flags_id, cull_mask_id,
      ray_origin_id, tmin_id, ray_dir_id, tmax_id>>

\* faulty variant: the acceleration structure is resolved after the extracts
write_ray_query_initialize_late_handle(w, query_id, acceleration_structure, descriptor) ==
    Bind(cached_index(w, descriptor), LAMBDA d :
    Bind(initialize_extract_desc(d, d.ret), LAMBDA e :
    Bind(get_handle_id(e, acceleration_structure), LAMBDA a :
    push(a, ray_query_initialize(
                initialize_operands(query_id, a.ret, e.ret[1], e.ret[2],
                                    e.ret[3], e.ret[4], e.ret[5], e.ret[6]))))))

\* lines 19-97

write_ray_query_initialize(w, query_id, acceleration_structure, descriptor) ==
    Bind(cached_index(w, descriptor), LAMBDA d :
    Bind(get_handle_id(d, acceleration_structure), LAMBDA a :
    Bind(initialize_extract_desc(a, d.ret), LAMBDA e :
    push(e, ray_query_initialize(
                initialize_operands(query_id, a.ret, e.ret[1], e.ret[2],
                                    e.ret[3], e.ret[4], e.ret[5], e.ret[6]))))))

\* faulty variant: the result is never recorded in the Value Cache
write_ray_query_proceed_unrecorded(w, query_id, result) ==
    Bind(gen_id(w), LAMBDA g :
    Bind(get_type_id(g, ExprTy(result)), LAMBDA t :
    push(t, ray_query_proceed(t.ret, g.ret, query_id))))

\* faulty variant: the result is recorded over an entry that is already there
write_ray_query_proceed_overwriting(w, query_id, result) ==
    Bind(gen_id(w), LAMBDA g :
    Bind(IF Ok(g) THEN [g EXCEPT !.cached[result] = g.ret] ELSE g, LAMBDA c :
    Bind(get_type_id(c, ExprTy(result)), LAMBDA t :
    push(t, ray_query_proceed(t.ret, g.ret, query_id)))))

\* lines 98-106

write_ray_query_proceed(w, query_id, result) ==
    Bind(gen_id(w), LAMBDA g :
    Bind(cached_index_mut(g, result, g.ret), LAMBDA c :
    Bind(get_type_id(c, ExprTy(result)), LAMBDA t :
    push(t, ray_query_proceed(t.ret, g.ret, query_id)))))

\* faulty variant: Terminate lowered to an instruction of its own
write_ray_query_terminate_emitting(w, query_id) ==
    push(w, Inst("OpRayQueryTerminateKHR", 0, 0, <<query_id>>))

\* line 107

write_ray_query_terminate(w, query_id) == w

\* faulty variant: the lifecycle is enforced, an advance of a query the block
\* has not initialized is refused
write_ray_query_function_lifecycle(w, query, function) ==
    Bind(cached_index(w, query), LAMBDA q :
    CASE function.tag = "Initialize" ->
           write_ray_query_initialize(q, q.ret,
               function.acceleration_structure, function.descriptor)
      [] function.tag = "Proceed" ->
           IF \E i \in 1 .. Len(q.body) :
                 /\ q.body[i].op = "OpRayQueryInitializeKHR"
                 /\ q.body[i].operands[1] = q.ret
           THEN write_ray_query_proceed(q, q.ret, function.result)
           ELSE abort(q)
      [] function.tag = "Terminate" ->
           write_ray_query_terminate(q, q.ret))

\* faulty variant: the query id is taken from the table without the check
\* that the expression is cached
write_ray_query_function_unchecked(w, query, function) ==
    Bind([w EXCEPT !.ret = w.cached[query]], LAMBDA q :
    CASE function.tag = "Initialize" ->
           write_ray_query_initialize(q, q.ret,
               function.acceleration_structure, function.descriptor)
      [] function.tag = "Proceed" ->
           write_ray_query_proceed(q, q.ret, function.result)
      [] function.tag = "Terminate" ->
           write_ray_query_terminate(q, q.ret))

\* lines 11-109

write_ray_query_function(w, query, function) ==
    Bind(cached_index(w, query), LAMBDA q :
    CASE function.tag = "Initialize" ->
           write_ray_query_initialize(q, q.ret,
               function.acceleration_structure, function.descriptor)
      [] function.tag = "Proceed" ->
           write_ray_query_proceed(q, q.ret, function.result)
      [] function.tag = "Terminate" ->
           write_ray_query_terminate(q, q.ret))

----------------------------------------------------------------------------
(* write_ray_query_get_intersection *)

\* faulty variant: query and selector passed in each other's place
get_intersection_field_swapped(w, op, type_id, query_id, intersection_id) ==
    Bind(gen_id(w), LAMBDA g :
    push(g, ray_query_get_intersection(op, type_id, g.ret, intersection_id,
                                       query_id)))

\* faulty variant: the read takes the id allocated last instead of a new one
get_intersection_field_stale_id(w, op, type_id, query_id, intersection_id) ==
    push(w, ray_query_get_intersection(op, type_id, w.id_gen, query_id,
                                       intersection_id))

\* id = gen_id(); push(ray_query_get_intersection(op, type_id, id, query_id, intersection_id))
get_intersection_field(w, op, type_id, query_id, intersection_id) ==
    Bind(gen_id(w), LAMBDA g :
    push(g, ray_query_get_intersection(op, type_id, g.ret, query_id,
                                       intersection_id)))

\* faulty variant: an unregistered special type is reported as an error value
special_types_ray_intersection_ok_or(w) ==
    IF ~Ok(w) THEN w
    ELSE IF ~ray_intersection THEN [w EXCEPT !.status = "err"]
    ELSE [w EXCEPT !.ret = "Handle(RayIntersection)"]

\* self.ir_module.special_types.ray_intersection.unwrap()
special_types_ray_intersection_unwrap(w) ==
    IF ~Ok(w) THEN w
    ELSE IF ~ray_intersection THEN abort(w)
    ELSE [w EXCEPT !.ret = "Handle(RayIntersection)"]

\* faulty variant: the constituents in the order the attributes were read
intersection_constituents_as_read(kind_id, instance_custom_index_id, instance_id, sbt_record_offset_id, geometry_index_id, primitive_index_id, t_id, barycentrics_id, front_face_id, object_to_world_id, world_to_object_id) ==
    <<kind_id, instance_custom_index_id, instance_id, sbt_record_offset_id,
      geometry_index_id, primitive_index_id, t_id, barycentrics_id,
      front_face_id, object_to_world_id, world_to_object_id>>

\* lines 247-259: the constituents of the composite, from the ids in the order
\* the routine obtained them
intersection_constituents(kind_id, instance_custom_index_id, instance_id, sbt_record_offset_id, geometry_index_id, primitive_index_id, t_id, barycentrics_id, front_face_id, object_to_world_id, world_to_object_id) ==
    <<kind_id, t_id, instance_custom_index_id, instance_id,
      sbt_record_offset_id, geometry_index_id, primitive_index_id,
      barycentrics_id, front_face_id, object_to_world_id, world_to_object_id>>

\* lines 121-237: the eleven attribute reads; yields their result ids in the
\* order they were emitted
get_intersection_fields(w, query_id, intersection_id) ==
    Bind(get_type_id(w, "u32"), LAMBDA t1 :
    Bind(get_intersection_field(t1, "OpRayQueryGetIntersectionTypeKHR",
             t1.ret, query_id, intersection_id), LAMBDA f1 :
    Bind(get_intersection_field(f1,
             "OpRayQueryGetIntersectionInstanceCustomIndexKHR",
             t1.ret, query_id, intersection_id), LAMBDA f2 :
    Bind(get_intersection_field(f2, "OpRayQueryGetIntersectionInstanceIdKHR",
             t1.ret, query_id, intersection_id), LAMBDA f3 :
    Bind(get_intersection_field(f3,
             "OpRayQueryGetIntersectionInstanceShaderBindingTableRecordOffsetKHR",
             t1.ret, query_id, intersection_id), LAMBDA f4 :
    Bind(get_intersection_field(f4, "OpRayQueryGetIntersectionGeometryIndexKHR",
             t1.ret, query_id, intersection_id), LAMBDA f5 :
    Bind(get_intersection_field(f5, "OpRayQueryGetIntersectionPrimitiveIndexKHR",
             t1.ret, query_id, intersection_id), LAMBDA f6 :
    Bind(get_type_id(f6, "f32"), LAMBDA t2 :
    Bind(get_intersection_field(t2, "OpRayQueryGetIntersectionTKHR",
             t2.ret, query_id, intersection_id), LAMBDA f7 :
    Bind(get_type_id(f7, "vec2<f32>"), LAMBDA t3 :
    Bind(get_intersection_field(t3, "OpRayQueryGetIntersectionBarycentricsKHR",
             t3.ret, query_id, intersection_id), LAMBDA f8 :
    Bind(get_type_id(f8, "bool"), LAMBDA t4 :
    Bind(get_intersection_field(t4, "OpRayQueryGetIntersectionFrontFaceKHR",
             t4.ret, query_id, intersection_id), LAMBDA f9 :
    Bind(get_type_id(f9, "mat4x3<f32>"), LAMBDA t5 :
    Bind(get_intersection_field(t5, "OpRayQueryGetIntersectionObjectToWorldKHR",
             t5.ret, query_id, intersection_id), LAMBDA f10 :
    Bind(get_intersection_field(f10, "OpRayQueryGetIntersectionWorldToObjectKHR",
             t5.ret, query_id, intersection_id), LAMBDA f11 :
    [f11 EXCEPT !.ret = <<f1.ret, f2.ret, f3.ret, f4.ret, f5.ret, f6.ret,
                          f7.ret, f8.ret, f9.ret, f10.ret, f11.ret>>]
    ))))))))))))))))

\* faulty variant: returns the id of the last attribute read
write_ray_query_get_intersection_last_field(w, query) ==
    Bind(cached_index(w, query), LAMBDA q :
    Bind(get_constant_scalar(q, RayQueryCommittedIntersectionKHR), LAMBDA c :
    Bind(get_intersection_fields(c, q.ret, c.ret), LAMBDA e :
    Bind(gen_id(e), LAMBDA g :
    Bind(special_types_ray_intersection_unwrap(g), LAMBDA u :
    Bind(get_type_id(u, u.ret), LAMBDA t :
    Bind(push(t, composite_construct(t.ret, g.ret,
             intersection_constituents(e.ret[1], e.ret[2], e.ret[3], e.ret[4],
                 e.ret[5], e.ret[6], e.ret[7], e.ret[8], e.ret[9], e.ret[10],
                 e.ret[11]))), LAMBDA p :
    [p EXCEPT !.ret = IF Ok(p) THEN e.ret[11] ELSE 0])))))))

\* the writer state after the call; its ret is the id returned to the caller
write_ray_query_get_intersection(w, query) ==
    Bind(cached_index(w, query), LAMBDA q :
    Bind(get_constant_scalar(q, RayQueryCommittedIntersectionKHR), LAMBDA c :
    Bind(get_intersection_fields(c, q.ret, c.ret), LAMBDA e :
    Bind(gen_id(e), LAMBDA g :
    Bind(special_types_ray_intersection_unwrap(g), LAMBDA u :
    Bind(get_type_id(u, u.ret), LAMBDA t :
    Bind(push(t, composite_construct(t.ret, g.ret,
             intersection_constituents(e.ret[1], e.ret[2], e.ret[3], e.ret[4],
                 e.ret[5], e.ret[6], e.ret[7], e.ret[8], e.ret[9], e.ret[10],
                 e.ret[11]))), LAMBDA p :
    [p EXCEPT !.ret = IF Ok(p) THEN g.ret ELSE 0])))))))

----------------------------------------------------------------------------
(* write_ray_tracing_function *)

\* instruction.to_words(&mut self.writer.logical_layout.declarations)
declare(w, declaration) ==
    IF ~Ok(w) THEN w
    ELSE [w EXCEPT !.declarations = Append(@, declaration)]

\* writer.write_varying(ir_module, stage, class, None, ty, binding)?: a fresh
\* variable of the interned pointer type, or Err
write_varying(w, class, ty, fails) ==
    IF ~Ok(w) THEN w
    ELSE IF fails THEN [w EXCEPT !.status = "err"]
    ELSE Bind(gen_id(w), LAMBDA g :
         Bind(get_type_id(g, "ptr<" \o class \o "," \o ty \o ">"), LAMBDA t :
         Bind(declare(t, variable(t.ret, g.ret, class)), LAMBDA d :
         [d EXCEPT !.ret = g.ret])))

\* faulty variant: the u32 type is declared anew instead of interned
trace_extract_desc_fresh_type(w, desc_id) ==
    Bind(gen_id(w), LAMBDA g1 :
    Bind(declare(g1, type_decl(g1.ret, "u32")), LAMBDA t1 :
    Bind(extract_field(t1, g1.ret, desc_id, 0), LAMBDA e0 :
    Bind(extract_field(e0, g1.ret, desc_id, 1), LAMBDA e1 :
    Bind(get_type_id(e1, "f32"), LAMBDA t2 :
    Bind(extract_field(t2, t2.ret, desc_id, 2), LAMBDA e2 :
    Bind(extract_field(e2, t2.ret, desc_id, 3), LAMBDA e3 :
    Bind(get_type_id(e3, "vec3<f32>"), LAMBDA t3 :
    Bind(extract_field(t3, t3.ret, desc_id, 4), LAMBDA e4 :
    Bind(extract_field(e4, t3.ret, desc_id, 5), LAMBDA e5 :
    [e5 EXCEPT !.ret = <<e0.ret, e1.ret, e2.ret, e3.ret, e4.ret, e5.ret>>]
    ))))))))))

\* faulty variant: t_min read from field 3 and t_max from field 2
trace_extract_desc_swapped(w, desc_id) ==
    Bind(get_type_id(w, "u32"), LAMBDA t1 :
    Bind(extract_field(t1, t1.ret, desc_id, 0), LAMBDA e0 :
    Bind(extract_field(e0, t1.ret, desc_id, 1), LAMBDA e1 :
    Bind(get_type_id(e1, "f32"), LAMBDA t2 :
    Bind(extract_field(t2, t2.ret, desc_id, 3), LAMBDA e2 :
    Bind(extract_field(e2, t2.ret, desc_id, 2), LAMBDA e3 :
    Bind(get_type_id(e3, "vec3<f32>"), LAMBDA t3 :
    Bind(extract_field(t3, t3.ret, desc_id, 4), LAMBDA e4 :
    Bind(extract_field(e4, t3.ret, desc_id, 5), LAMBDA e5 :
    [e5 EXCEPT !.ret = <<e0.ret, e1.ret, e2.ret, e3.ret, e4.ret, e5.ret>>]
    )))))))))

\* lines 289-347: the six fields of the ray descriptor, extracted in order;
\* yields <<ray_flags_id, cull_mask_id, tmin_id, tmax_id, ray_origin_id, ray_dir_id>>
trace_extract_desc(w, desc_id) ==
    Bind(get_type_id(w, "u32"), LAMBDA t1 :
    Bind(extract_field(t1, t1.ret, desc_id, 0), LAMBDA e0 :
    Bind(extract_field(e0, t1.ret, desc_id, 1), LAMBDA e1 :
    Bind(get_type_id(e1, "f32"), LAMBDA t2 :
    Bind(extract_field(t2, t2.ret, desc_id, 2), LAMBDA e2 :
    Bind(extract_field(e2, t2.ret, desc_id, 3), LAMBDA e3 :
    Bind(get_type_id(e3, "vec3<f32>"), LAMBDA t3 :
    Bind(extract_field(t3, t3.ret, desc_id, 4), LAMBDA e4 :
    Bind(extract_field(e4, t3.ret, desc_id, 5), LAMBDA e5 :
    [e5 EXCEPT !.ret = <<e0.ret, e1.ret, e2.ret, e3.ret, e4.ret, e5.ret>>]
    )))))))))

\* faulty variant: the extracted ids passed in descriptor field order
trace_ray_operands_field_order(acc_struct_id, ray_flags_id, cull_mask_id, sbt_offset_id, sbt_stride_id, miss_index_id, tmin_id, tmax_id, ray_origin_id, ray_dir_id, varying_id) ==
    <<acc_struct_id, ray_flags_id, cull_mask_id, sbt_offset_id, sbt_stride_id,
      miss_index_id, tmin_id, tmax_id, ray_origin_id, ray_dir_id, varying_id>>

\* lines 351-363: the argument list of Instruction::trace_ray
trace_ray_operands(acc_struct_id, ray_flags_id, cull_mask_id, sbt_offset_id, sbt_stride_id, miss_index_id, tmin_id, tmax_id, ray_origin_id, ray_dir_id, varying_id) ==
    <<acc_struct_id, ray_flags_id, cull_mask_id, sbt_offset_id, sbt_stride_id,
      miss_index_id, ray_origin_id, tmin_id, ray_dir_id, tmax_id, varying_id>>

\* faulty variant: the payload is never copied back
trace_dispatch_no_copy_out(w, acc_struct_id, f, varying_id, payload_id) ==
    Bind(push(w, copy(varying_id, payload_id)), LAMBDA ci :
    Bind(get_index_constant(ci, 0), LAMBDA c0 :
    Bind(get_index_constant(c0, 1), LAMBDA c1 :
    Bind(get_index_constant(c1, 0), LAMBDA c2 :
    push(c2, trace_ray(
             trace_ray_operands(acc_struct_id, f[1], f[2], c0.ret, c1.ret,
                                c2.ret, f[3], f[4], f[5], f[6], varying_id)))))))

\* faulty variant: both copies go the wrong way
trace_dispatch_copies_reversed(w, acc_struct_id, f, varying_id, payload_id) ==
    Bind(push(w, copy(payload_id, varying_id)), LAMBDA ci :
    Bind(get_index_constant(ci, 0), LAMBDA c0 :
    Bind(get_index_constant(c0, 1), LAMBDA c1 :
    Bind(get_index_constant(c1, 0), LAMBDA c2 :
    Bind(push(c2, trace_ray(
             trace_ray_operands(acc_struct_id, f[1], f[2], c0.ret, c1.ret,
                                c2.ret, f[3], f[4], f[5], f[6], varying_id))),
         LAMBDA tr :
    push(tr, copy(varying_id, payload_id)))))))

\* lines 348-366: copy the payload in, dispatch, copy the payload out
trace_dispatch(w, acc_struct_id, f, varying_id, payload_id) ==
    Bind(push(w, copy(varying_id, payload_id)), LAMBDA ci :
    Bind(get_index_constant(ci, 0), LAMBDA c0 :
    Bind(get_index_constant(c0, 1), LAMBDA c1 :
    Bind(get_index_constant(c1, 0), LAMBDA c2 :
    Bind(push(c2, trace_ray(
             trace_ray_operands(acc_struct_id, f[1], f[2], c0.ret, c1.ret,
                                c2.ret, f[3], f[4], f[5], f[6], varying_id))),
         LAMBDA tr :
    push(tr, copy(payload_id, varying_id)))))))

\* faulty variant: the payload expression is rebound to the storage slot
write_trace_ray_rebinding_payload(w, acceleration_structure, descriptor, payload, payload_ty, varying_fails) ==
    Bind(get_handle_id(w, acceleration_structure), LAMBDA a :
    Bind(write_varying(a, "RayPayloadKHR", payload_ty, varying_fails), LAMBDA v :
    Bind(cached_index(v, payload), LAMBDA p :
    Bind(cached_index(p, descriptor), LAMBDA d :
    Bind(trace_extract_desc(d, d.ret), LAMBDA e :
    Bind(trace_dispatch(e, a.ret, e.ret, v.ret, p.ret), LAMBDA t :
    IF Ok(t) THEN [t EXCEPT !.cached[payload] = v.ret] ELSE t))))))

\* faulty variant: the payload slot is resolved after the descriptor extracts
write_trace_ray_late_varying(w, acceleration_structure, descriptor, payload, payload_ty, varying_fails) ==
    Bind(get_handle_id(w, acceleration_structure), LAMBDA a :
    Bind(cached_index(a, payload), LAMBDA p :
    Bind(cached_index(p, descriptor), LAMBDA d :
    Bind(trace_extract_desc(d, d.ret), LAMBDA e :
    Bind(write_varying(e, "RayPayloadKHR", payload_ty, varying_fails), LAMBDA v :
    trace_dispatch(v, a.ret, e.ret, v.ret, p.ret))))))

\* lines 271-367

write_trace_ray(w, acceleration_structure, descriptor, payload, payload_ty, varying_fails) ==
    Bind(get_handle_id(w, acceleration_structure), LAMBDA a :
    Bind(write_varying(a, "RayPayloadKHR", payload_ty, varying_fails), LAMBDA v :
    Bind(cached_index(v, payload), LAMBDA p :
    Bind(cached_index(p, descriptor), LAMBDA d :
    Bind(trace_extract_desc(d, d.ret), LAMBDA e :
    trace_dispatch(e, a.ret, e.ret, v.ret, p.ret))))))

\* faulty variant: the variable declared with its type and its id exchanged
report_declare_storage_exchanged(w, intersection_ty) ==
    Bind(gen_id(w), LAMBDA g1 :
    Bind(gen_id(g1), LAMBDA g2 :
    Bind(get_type_id(g2, intersection_ty), LAMBDA t :
    Bind(declare(t, type_pointer(g1.ret, "HitAttributeKHR", t.ret)), LAMBDA d1 :
    Bind(declare(d1, variable(g2.ret, g1.ret, "HitAttributeKHR")), LAMBDA d2 :
    [d2 EXCEPT !.ret = <<g1.ret, g2.ret>>])))))

\* faulty variant: one hit-attribute variable, declared by the first call and
\* reused by the later ones
report_declare_storage_reused(w, intersection_ty) ==
    LET old == {i \in 1 .. Len(w.declarations) :
                   /\ w.declarations[i].op = "OpVariable"
                   /\ w.declarations[i].key = <<"HitAttributeKHR">>}
    IN IF Ok(w) /\ old # {}
       THEN Bind(w.declarations[CHOOSE i \in old : TRUE], LAMBDA v :
            [w EXCEPT !.ret = <<v.type, v.id>>])
       ELSE Bind(gen_id(w), LAMBDA g1 :
            Bind(gen_id(g1), LAMBDA g2 :
            Bind(get_type_id(g2, intersection_ty), LAMBDA t :
            Bind(declare(t, type_pointer(g1.ret, "HitAttributeKHR", t.ret)),
                 LAMBDA d1 :
            Bind(declare(d1, variable(g1.ret, g2.ret, "HitAttributeKHR")),
                 LAMBDA d2 :
            [d2 EXCEPT !.ret = <<g1.ret, g2.ret>>])))))

\* faulty variant: the storage is declared only when the block holds no
\* earlier report, so that the output depends on what the block already holds
report_declare_storage_first_report(w, intersection_ty) ==
    IF Ok(w) /\ \E i \in 1 .. Len(w.body) : w.body[i].op = "OpReportIntersectionKHR"
    THEN Bind(gen_id(w), LAMBDA g1 :
         Bind(gen_id(g1), LAMBDA g2 :
         [g2 EXCEPT !.ret = <<g1.ret, g2.ret>>]))
    ELSE Bind(gen_id(w), LAMBDA g1 :
         Bind(gen_id(g1), LAMBDA g2 :
         Bind(get_type_id(g2, intersection_ty), LAMBDA t :
         Bind(declare(t, type_pointer(g1.ret, "HitAttributeKHR", t.ret)),
              LAMBDA d1 :
         Bind(declare(d1, variable(g1.ret, g2.ret, "HitAttributeKHR")),
              LAMBDA d2 :
         [d2 EXCEPT !.ret = <<g1.ret, g2.ret>>])))))

\* lines 375-390: the pointer type and the variable of the hit attributes;
\* yields <<id, pointer_type_id>>
report_declare_storage(w, intersection_ty) ==
    Bind(gen_id(w), LAMBDA g1 :
    Bind(gen_id(g1), LAMBDA g2 :
    Bind(get_type_id(g2, intersection_ty), LAMBDA t :
    Bind(declare(t, type_pointer(g1.ret, "HitAttributeKHR", t.ret)), LAMBDA d1 :
    Bind(declare(d1, variable(g1.ret, g2.ret, "HitAttributeKHR")), LAMBDA d2 :
    [d2 EXCEPT !.ret = <<g1.ret, g2.ret>>])))))

\* faulty variant: the report reuses the id of the hit-attribute variable
report_emit_reusing_id(w, pointer_type_id, hit_t, hit_type, intersection, result) ==
    Bind(cached_index(w, hit_t), LAMBDA h1 :
    Bind(cached_index(h1, hit_type), LAMBDA h2 :
    Bind(cached_index(h2, intersection), LAMBDA h3 :
    Bind(push(h3, store(pointer_type_id, h3.ret)), LAMBDA s :
    Bind(get_type_id(s, "bool"), LAMBDA t :
    Bind(push(t, report_intersection(t.ret, pointer_type_id, h1.ret, h2.ret)),
         LAMBDA r :
    cached_index_mut(r, result, pointer_type_id)))))))

\* faulty variant: the store writes the result of the report that follows it
report_emit_store_of_result(w, pointer_type_id, hit_t, hit_type, intersection, result) ==
    Bind(cached_index(w, hit_t), LAMBDA h1 :
    Bind(cached_index(h1, hit_type), LAMBDA h2 :
    Bind(cached_index(h2, intersection), LAMBDA h3 :
    Bind(gen_id(h3), LAMBDA g :
    Bind(push(g, store(pointer_type_id, g.ret)), LAMBDA s :
    Bind(get_type_id(s, "bool"), LAMBDA t :
    Bind(push(t, report_intersection(t.ret, g.ret, h1.ret, h2.ret)), LAMBDA r :
    cached_index_mut(r, result, g.ret))))))))

\* lines 391-407: store the candidate attributes, report, record the result
report_emit(w, pointer_type_id, hit_t, hit_type, intersection, result) ==
    Bind(cached_index(w, hit_t), LAMBDA h1 :
    Bind(cached_index(h1, hit_type), LAMBDA h2 :
    Bind(cached_index(h2, intersection), LAMBDA h3 :
    Bind(push(h3, store(pointer_type_id, h3.ret)), LAMBDA s :
    Bind(gen_id(s), LAMBDA g :
    Bind(get_type_id(g, "bool"), LAMBDA t :
    Bind(push(t, report_intersection(t.ret, g.ret, h1.ret, h2.ret)), LAMBDA r :
    cached_index_mut(r, result, g.ret))))))))

write_report_intersection(w, hit_t, hit_type, intersection, intersection_ty, result) ==
    Bind(report_declare_storage(w, intersection_ty), LAMBDA d :
    report_emit(d, d.ret[2], hit_t, hit_type, intersection, result))

write_ray_tracing_function(w, function, varying_fails) ==
    CASE function.tag = "TraceRay" ->
           write_trace_ray(w, function.acceleration_structure,
               function.descriptor, function.payload, function.payload_ty,
               varying_fails)
      [] function.tag = "ReportIntersection" ->
           write_report_intersection(w, function.hit_t, function.hit_type,
               function.intersection, function.intersection_ty, function.result)

----------------------------------------------------------------------------
(* examples/src/water_rtx/mod.rs: Example *)

\* Option<usize>
None == <<>>
Some(frame) == <<frame>>

\* widths and heights a surface configuration takes: minimized or not
SurfaceSizes == {0, 800}

\* Example::init: the fields of the frame gate
Example_init == [current_frame |-> 0, active |-> Some(0)]

\* the example as it stands
Example == [current_frame |-> current_frame, active |-> active]

\* Example::resize: stop on an empty surface, else restart at this frame
resize(ex, config) ==
    IF config.width = 0 /\ config.height = 0
    THEN [ex EXCEPT !.active = None]
    ELSE [ex EXCEPT !.active = Some(ex.current_frame)]

\* faulty variant: the gate is tested before the frame is counted
render_gate_first(ex) ==
    [current_frame |-> ex.current_frame + 1,
     active |-> ex.active,
     submitted |-> IF ex.active = None THEN FALSE
                   ELSE IF ex.active[1] >= ex.current_frame THEN FALSE
                   ELSE TRUE]

\* Example::render: count the frame, then draw and submit if the gate is open;
\* `submitted` tells whether queue.submit was reached
render(ex) ==
    [current_frame |-> ex.current_frame + 1,
     active |-> ex.active,
     submitted |-> IF ex.active = None THEN FALSE
                   ELSE IF ex.active[1] >= ex.current_frame + 1 THEN FALSE
                   ELSE TRUE]

\* nothing has been called on the example yet
NoFrame ==
    [op |-> "init", submitted |-> FALSE, renders |-> 0, resized |-> "none",
     since |-> 0, skipped |-> 0]

ExampleAtRest ==
    /\ current_frame = Example_init.current_frame
    /\ active = Example_init.active
    /\ frame_log = NoFrame

----------------------------------------------------------------------------
(* The driver: one action per kind of statement *)

NoCall ==
    [op |-> "none", query |-> 0, acceleration_structure |-> 0, descriptor |-> 0,
     payload |-> 0, payload_ty |-> "", hit_t |-> 0, hit_type |-> 0,
     intersection |-> 0, intersection_ty |-> "", result |-> 0,
     pre_len |-> 0, pre_id |-> 0, pre_decls |-> 0, ret |-> 0]

Call(op) ==
    [NoCall EXCEPT !.op = op, !.pre_len = Len(body), !.pre_id = id_gen,
                   !.pre_decls = Len(declarations)]

Commit(w, call) ==
    /\ id_gen' = w.id_gen
    /\ lookup_type' = w.lookup_type
    /\ cached_constants' = w.cached_constants
    /\ declarations' = w.declarations
    /\ body' = w.body
    /\ cached' = w.cached
    /\ status' = w.status
    /\ calls' = calls + 1
    /\ last' = call
    /\ UNCHANGED ray_intersection
    /\ UNCHANGED example_vars

CanLower == status = "ok" /\ calls < MaxCalls

Operand(h) == {h, Unlowered}

LowerInitialize ==
    /\ CanLower
    /\ \E query \in Operand(QueryHandle), acc \in Operand(AccHandle),
          desc \in Operand(DescHandle) :
          Commit(write_ray_query_function(Writer, query,
                     [tag |-> "Initialize", acceleration_structure |-> acc,
                      descriptor |-> desc]),
                 [Call("Initialize") EXCEPT !.query = query,
                      !.acceleration_structure = acc, !.descriptor = desc])

LowerProceed ==
    /\ CanLower
    /\ \E query \in Operand(QueryHandle), result \in ResultHandles :
          Commit(write_ray_query_function(Writer, query,
                     [tag |-> "Proceed", result |-> result]),
                 [Call("Proceed") EXCEPT !.query = query, !.result = result])

LowerTerminate ==
    /\ CanLower
    /\ \E query \in Operand(QueryHandle) :
          Commit(write_ray_query_function(Writer, query, [tag |-> "Terminate"]),
                 [Call("Terminate") EXCEPT !.query = query])

LowerGetIntersection ==
    /\ CanLower
    /\ \E query \in Operand(QueryHandle) :
          \E w \in {write_ray_query_get_intersection(Writer, query)} :
             Commit(w, [Call("GetIntersection") EXCEPT !.query = query,
                                                       !.ret = w.ret])

LowerTraceRay ==
    /\ CanLower
    /\ \E acc \in Operand(AccHandle), desc \in Operand(DescHandle),
          payload \in Operand(PayloadHandle), payload_ty \in PayloadTys,
          varying_fails \in BOOLEAN :
          Commit(write_ray_tracing_function(Writer,
                     [tag |-> "TraceRay", acceleration_structure |-> acc,
                      descriptor |-> desc, payload |-> payload,
                      payload_ty |-> payload_ty], varying_fails),
                 [Call("TraceRay") EXCEPT !.acceleration_structure = acc,
                      !.descriptor = desc, !.payload = payload,
                      !.payload_ty = payload_ty])

LowerReportIntersection ==
    /\ CanLower
    /\ \E hit_t \in Operand(HitTHandle), hit_type \in Operand(HitKindHandle),
          intersection \in Operand(IntersectionHandle),
          intersection_ty \in IntersectionTys, result \in ResultHandles :
          Commit(write_ray_tracing_function(Writer,
                     [tag |-> "ReportIntersection", hit_t |-> hit_t,
                      hit_type |-> hit_type, intersection |-> intersection,
                      intersection_ty |-> intersection_ty, result |-> result],
                     FALSE),
                 [Call("ReportIntersection") EXCEPT !.hit_t = hit_t,
                      !.hit_type = hit_type, !.intersection = intersection,
                      !.intersection_ty = intersection_ty, !.result = result])

----------------------------------------------------------------------------
(* Initial states: what earlier stages of the compilation left behind *)

InitCached ==
    [h \in Handles |->
        CASE h = DescHandle -> 4
          [] h = QueryHandle -> 5
          [] h = PayloadHandle -> 6
          [] h = HitTHandle -> 7
          [] h = HitKindHandle -> 8
          [] h = IntersectionHandle -> 9
          [] OTHER -> 0]

InitTypes(registered, interned) ==
    [k \in TypeKeys |->
        CASE k = "Handle(RayIntersection)" -> IF registered THEN 2 ELSE 0
          [] k = "Handle(Payload)" -> 3
          [] k = "u32" -> IF interned THEN 10 ELSE 0
          [] k = "bool" -> IF interned THEN 11 ELSE 0
          [] OTHER -> 0]

Init ==
    /\ \E registered \in BOOLEAN, interned \in BOOLEAN :
          /\ ray_intersection = registered
          /\ lookup_type = InitTypes(registered, interned)
          /\ id_gen = IF interned THEN 11 ELSE 9
          /\ declarations =
                IF interned THEN <<type_decl(10, "u32"), type_decl(11, "bool")>>
                ELSE <<>>
    /\ cached_constants = [v \in U32Literals |-> 0]
    /\ body = <<>>
    /\ cached = InitCached
    /\ status = "ok"
    /\ calls = 0
    /\ last = NoCall
    /\ ExampleAtRest

Next ==
    \/ LowerInitialize
    \/ LowerProceed
    \/ LowerTerminate
    \/ LowerGetIntersection
    \/ LowerTraceRay
    \/ LowerReportIntersection

Spec == Init /\ [][Next]_vars

----------------------------------------------------------------------------
(* The example application: the framework resizes the surface and asks for *)
(* frames in any order                                                     *)

\* no shader is being lowered
LoweringAtRest ==
    /\ ray_intersection = FALSE
    /\ lookup_type = InitTypes(FALSE, FALSE)
    /\ id_gen = 9
    /\ declarations = <<>>
    /\ cached_constants = [v \in U32Literals |-> 0]
    /\ body = <<>>
    /\ cached = InitCached
    /\ status = "ok"
    /\ calls = 0
    /\ last = NoCall

ExampleResize ==
    \E width \in SurfaceSizes, height \in SurfaceSizes :
       \E ex \in {resize(Example, [width |-> width, height |-> height])} :
          /\ current_frame' = ex.current_frame
          /\ active' = ex.active
          /\ frame_log' = [frame_log EXCEPT
                              !.op = "resize", !.submitted = FALSE,
                              !.resized = IF width = 0 /\ height = 0
                                          THEN "zero" ELSE "nonzero",
                              !.since = 0]
          /\ UNCHANGED vars

ExampleRender ==
    /\ current_frame < MaxFrames
    /\ \E ex \in {render(Example)} :
          /\ current_frame' = ex.current_frame
          /\ active' = ex.active
          /\ frame_log' = [frame_log EXCEPT
                              !.op = "render", !.submitted = ex.submitted,
                              !.renders = @ + 1, !.since = @ + 1,
                              !.skipped = IF ex.submitted THEN @ ELSE @ + 1]
          /\ UNCHANGED vars

ExampleInit == LoweringAtRest /\ ExampleAtRest

ExampleNext == ExampleResize \/ ExampleRender

ExampleSpec == ExampleInit /\ [][ExampleNext]_example_vars

----------------------------------------------------------------------------
(* What the last call did *)

\* the last call was `op` and returned (it neither panicked nor returned Err)
Done(op) == last.op = op /\ status = "ok"

\* the instructions and the declarations the last call appended
Emitted == SubSeq(body, last.pre_len + 1, Len(body))
Declared == SubSeq(declarations, last.pre_decls + 1, Len(declarations))

\* positions of the instructions of `seq` with opcode `op`
Positions(seq, op) == {i \in 1 .. Len(seq) : seq[i].op = op}

\* the field order of the ray intersection composite (spec section 3)
DeclaredFieldOp ==
    <<"OpRayQueryGetIntersectionTypeKHR",
      "OpRayQueryGetIntersectionTKHR",
      "OpRayQueryGetIntersectionInstanceCustomIndexKHR",
      "OpRayQueryGetIntersectionInstanceIdKHR",
      "OpRayQueryGetIntersectionInstanceShaderBindingTableRecordOffsetKHR",
      "OpRayQueryGetIntersectionGeometryIndexKHR",
      "OpRayQueryGetIntersectionPrimitiveIndexKHR",
      "OpRayQueryGetIntersectionBarycentricsKHR",
      "OpRayQueryGetIntersectionFrontFaceKHR",
      "OpRayQueryGetIntersectionObjectToWorldKHR",
      "OpRayQueryGetIntersectionWorldToObjectKHR">>

\* the order in which the routine emits the attribute reads: grouped by
\* result type, so that the distance comes seventh
EmittedFieldOp ==
    <<"OpRayQueryGetIntersectionTypeKHR",
      "OpRayQueryGetIntersectionInstanceCustomIndexKHR",
      "OpRayQueryGetIntersectionInstanceIdKHR",
      "OpRayQueryGetIntersectionInstanceShaderBindingTableRecordOffsetKHR",
      "OpRayQueryGetIntersectionGeometryIndexKHR",
      "OpRayQueryGetIntersectionPrimitiveIndexKHR",
      "OpRayQueryGetIntersectionTKHR",
      "OpRayQueryGetIntersectionBarycentricsKHR",
      "OpRayQueryGetIntersectionFrontFaceKHR",
      "OpRayQueryGetIntersectionObjectToWorldKHR",
      "OpRayQueryGetIntersectionWorldToObjectKHR">>

\* the id of the attribute read with opcode `op` among the emitted instructions
FieldId(op) == Emitted[CHOOSE i \in Positions(Emitted, op) : TRUE].id

\* the storage slot the last call declared in `class`
SlotsDeclared(class) ==
    {Declared[i].id : i \in {j \in 1 .. Len(Declared) :
                               /\ Declared[j].op = "OpVariable"
                               /\ Declared[j].key = <<class>>}}

----------------------------------------------------------------------------
(* C1 *)

\* C1 as stated: a returned get-intersection call appended twelve
\* instructions, the eleven attribute reads in the declared field order
\* (kind, t, instance custom index, ...) and then one composite-construct of
\* the eleven ids in that same order.
C1_AsStated ==
    Done("GetIntersection") =>
        /\ Len(Emitted) = 12
        /\ \A i \in 1 .. 11 : Emitted[i].op = DeclaredFieldOp[i]
        /\ Emitted[12].op = "OpCompositeConstruct"
        /\ Emitted[12].operands = [i \in 1 .. 11 |-> Emitted[i].id]

\* C1 (amended): a returned get-intersection call appended exactly twelve
\* instructions: the eleven attribute reads in the order kind, instance custom
\* index, instance id, SBT record offset, geometry index, primitive index, t,
\* barycentrics, front-face, object-to-world, world-to-object, and then exactly
\* one composite-construct whose operands are the eleven result ids in the
\* declared field order (kind, t, instance custom index, ...).
C1_FixedOrder ==
    Done("GetIntersection") =>
        /\ Len(Emitted) = 12
        /\ \A i \in 1 .. 11 : Emitted[i].op = EmittedFieldOp[i]
        /\ Positions(Emitted, "OpCompositeConstruct") = {12}
        /\ Emitted[12].operands = [i \in 1 .. 11 |-> FieldId(DeclaredFieldOp[i])]

C1_Witness ==
    /\ Done("GetIntersection")
    /\ last.pre_len > 0
    /\ Len(Emitted) = 12

(* C2 *)

\* C2: the eleven reads of a returned get-intersection call carry eleven
\* pairwise distinct attribute opcodes, one per declared field; operand i of
\* the composite-construct is the result id of the read whose opcode is the
\* attribute of declared field i; the id returned is the composite's result id.
C2_ConstituentsMatchFields ==
    Done("GetIntersection") =>
        LET reads == SubSeq(Emitted, 1, Len(Emitted) - 1)
            construct == Emitted[Len(Emitted)]
        IN /\ Len(reads) = 11
           /\ Cardinality({reads[i].op : i \in 1 .. Len(reads)}) = 11
           /\ {reads[i].op : i \in 1 .. Len(reads)}
                 = {DeclaredFieldOp[i] : i \in 1 .. 11}
           /\ construct.op = "OpCompositeConstruct"
           /\ Len(construct.operands) = 11
           /\ \A i \in 1 .. 11 :
                 \E j \in 1 .. Len(reads) :
                    /\ reads[j].op = DeclaredFieldOp[i]
                    /\ reads[j].id = construct.operands[i]
           /\ last.ret = construct.id
           /\ construct.id # 0

C2_Witness ==
    /\ Done("GetIntersection")
    /\ last.ret = body[Len(body)].id
    /\ body[Len(body)].operands[2] = body[Len(body) - 5].id

(* C3 *)

\* C3: every attribute read of a returned get-intersection call has the
\* operands (query id, selector id), where the query id is the Value Cache
\* entry of the query expression and the selector id is the id of the
\* committed-intersection constant.
C3_SameQueryAndSelector ==
    Done("GetIntersection") =>
        /\ cached_constants[RayQueryCommittedIntersectionKHR] # 0
        /\ \A i \in 1 .. Len(Emitted) :
              Emitted[i].op # "OpCompositeConstruct" =>
                 Emitted[i].operands =
                    <<cached[last.query],
                      cached_constants[RayQueryCommittedIntersectionKHR]>>

C3_Witness ==
    /\ Done("GetIntersection")
    /\ Cardinality({Emitted[i].operands : i \in 1 .. 11}) = 1
    /\ Emitted[7].operands[1] = cached[QueryHandle]

(* C4 *)

\* the (index, result type) pairs of the six descriptor fields (spec section 3)
RayDescFieldTy == <<"u32", "u32", "f32", "f32", "vec3<f32>", "vec3<f32>">>

\* the id get_handle_id resolves an acceleration-structure handle to
HandleIdOf(h) == get_handle_id(Writer, h).ret

\* C4: a returned Initialize call appended exactly seven instructions: six
\* composite-extracts from the cached descriptor id at indices 0..5 in that
\* order, with result types u32, u32, f32, f32, vec3<f32>, vec3<f32>, then one
\* initialize instruction with operands query id, acceleration-structure id and
\* the ids extracted at indices 0, 1, 4, 2, 5, 3.
C4_InitializeShape ==
    Done("Initialize") =>
        /\ Len(Emitted) = 7
        /\ \A i \in 1 .. 6 :
              /\ Emitted[i].op = "OpCompositeExtract"
              /\ Emitted[i].operands = <<cached[last.descriptor], i - 1>>
              /\ Emitted[i].type = lookup_type[RayDescFieldTy[i]]
              /\ Emitted[i].type # 0
        /\ Emitted[7].op = "OpRayQueryInitializeKHR"
        /\ Emitted[7].operands =
              <<cached[last.query], HandleIdOf(last.acceleration_structure),
                Emitted[1].id, Emitted[2].id, Emitted[5].id, Emitted[3].id,
                Emitted[6].id, Emitted[4].id>>

C4_Witness ==
    /\ Done("Initialize")
    /\ last.pre_len > 0
    /\ Len(Emitted) = 7
    /\ Emitted[7].operands[5] = Emitted[5].id

(* C5 *)

\* C5: a returned TraceRay call emitted composite-extracts of the descriptor
\* at indices 0..5 in that order, and after them exactly one dispatch
\* instruction with operands [acceleration structure, flags, mask, const0,
\* const1, const0, origin, t_min, direction, t_max, payload slot], the ids
\* of flags/mask/t_min/t_max/origin/direction being those extracted at indices
\* 0/1/2/3/4/5, and the first and third selector constants being one id.
C5_TraceRayOperands ==
    Done("TraceRay") =>
        LET extracts == Positions(Emitted, "OpCompositeExtract")
            dispatches == Positions(Emitted, "OpTraceRayKHR")
        IN /\ extracts = 1 .. 6
           /\ \A i \in 1 .. 6 :
                 Emitted[i].operands = <<cached[last.descriptor], i - 1>>
           /\ Cardinality(dispatches) = 1
           /\ \A d \in dispatches :
                 /\ d > 6
                 /\ \E slot \in SlotsDeclared("RayPayloadKHR") :
                       Emitted[d].operands =
                          <<HandleIdOf(last.acceleration_structure),
                            Emitted[1].id, Emitted[2].id,
                            cached_constants[0], cached_constants[1],
                            cached_constants[0],
                            Emitted[5].id, Emitted[3].id, Emitted[6].id,
                            Emitted[4].id, slot>>
                 /\ Emitted[d].operands[4] = Emitted[d].operands[6]
                 /\ Emitted[d].operands[4] # Emitted[d].operands[5]
                 /\ cached_constants[0] # 0

C5_Witness ==
    /\ Done("TraceRay")
    /\ last.pre_len > 0
    /\ Positions(Emitted, "OpTraceRayKHR") # {}

(* C6 *)

IsCopy(i) == i \in 1 .. Len(body) /\ body[i].op = "OpCopyMemory"

\* C6: in every reachable state, every dispatch instruction of the block is
\* immediately preceded by the one payload copy-in of its slot (the only copy
\* in the block that targets the slot) and immediately followed by the one
\* copy-out of its slot (the only copy that reads it), and the block holds no
\* copy that belongs to no dispatch.
C6_DispatchBracketed ==
    /\ \A d \in Positions(body, "OpTraceRayKHR") :
          LET slot == body[d].operands[11]
          IN /\ {i \in 1 .. Len(body) : IsCopy(i) /\ body[i].operands[1] = slot}
                   = {d - 1}
             /\ {i \in 1 .. Len(body) : IsCopy(i) /\ body[i].operands[2] = slot}
                   = {d + 1}
    /\ Cardinality(Positions(body, "OpCopyMemory"))
          = 2 * Cardinality(Positions(body, "OpTraceRayKHR"))

C6_Witness ==
    /\ Cardinality(Positions(body, "OpTraceRayKHR")) >= 2
    /\ body[Len(body)].op # "OpCopyMemory"

(* C7 *)

\* C7: a returned TraceRay call ends the block with copy(slot, payload id),
\* the dispatch, copy(payload id, slot), where the payload id is the Value
\* Cache entry of the payload expression and slot is the variable this call
\* declared in the RayPayloadKHR storage class, which is also the last operand
\* of the dispatch.
C7_CopyDirections ==
    Done("TraceRay") =>
        LET n == Len(body)
        IN /\ Cardinality(SlotsDeclared("RayPayloadKHR")) = 1
           /\ \A slot \in SlotsDeclared("RayPayloadKHR") :
                 /\ body[n - 2] = copy(slot, cached[last.payload])
                 /\ body[n - 1].op = "OpTraceRayKHR"
                 /\ body[n - 1].operands[11] = slot
                 /\ body[n] = copy(cached[last.payload], slot)
                 /\ slot # cached[last.payload]

C7_Witness ==
    /\ Done("TraceRay")
    /\ body[Len(body)].operands[1] = cached[PayloadHandle]
    /\ body[Len(body) - 2].operands[2] = cached[PayloadHandle]

(* C8 *)

\* C8: a returned Proceed call appended exactly one instruction, which reads
\* the cached query id; its result id was allocated by this call (it is above
\* the counter the call started from and not above the counter it left); the
\* Value Cache entry of `result` is that id and the result type is the type id
\* of the `result` expression.
C8_ProceedShape ==
    Done("Proceed") =>
        /\ Len(Emitted) = 1
        /\ Emitted[1].op = "OpRayQueryProceedKHR"
        /\ Emitted[1].operands = <<cached[last.query]>>
        /\ Emitted[1].id > last.pre_id
        /\ Emitted[1].id <= id_gen
        /\ cached[last.result] = Emitted[1].id
        /\ Emitted[1].type = lookup_type[ExprTy(last.result)]
        /\ Emitted[1].type # 0
        /\ Emitted[1].type # Emitted[1].id

C8_Witness ==
    /\ Done("Proceed")
    /\ last.pre_len > 0
    /\ cached[last.result] = body[Len(body)].id
    /\ ExprTy(last.result) # "bool"

(* C9 *)

\* C9: a Terminate step on a query that has a Value Cache entry returns and
\* leaves the block body, the declarations, the id counter, the type cache,
\* the constant cache and the Value Cache unchanged.
C9_TerminateFrame ==
    [][(/\ calls' = calls + 1
        /\ last'.op = "Terminate"
        /\ cached[last'.query] # 0)
       => /\ status' = "ok"
          /\ UNCHANGED <<body, declarations, id_gen, lookup_type,
                         cached_constants, cached>>]_vars

C9_Witness ==
    /\ Done("Terminate")
    /\ cached[last.query] # 0
    /\ Len(body) > 0
    /\ Len(body) = last.pre_len

(* C10 *)

\* every id the module and the block define or hold, except at position
\* `skip` of the block and in the cache entry of `h`
IdsElsewhere(skip, h) ==
    {body[i].id : i \in (1 .. Len(body)) \ {skip}}
       \cup {declarations[i].id : i \in 1 .. Len(declarations)}
       \cup {cached[x] : x \in Handles \ {h}}
       \cup {lookup_type[k] : k \in TypeKeys}
       \cup {cached_constants[v] : v \in U32Literals}

\* C10: a returned ReportIntersection call ends the block with a report
\* instruction whose operands are the Value Cache ids of hit_t and hit_type
\* in that order and whose result type is the boolean type id; its result id
\* was allocated by this call after the call's first two ids, is an id of
\* nothing else in the module, the block or the Value Cache, and is the Value
\* Cache entry of `result`.
C10_ReportShape ==
    Done("ReportIntersection") =>
        LET n == Len(body)
        IN /\ Positions(Emitted, "OpReportIntersectionKHR") = {Len(Emitted)}
           /\ body[n].operands = <<cached[last.hit_t], cached[last.hit_type]>>
           /\ body[n].type = lookup_type["bool"]
           /\ body[n].type # 0
           /\ body[n].id > last.pre_id + 2
           /\ body[n].id <= id_gen
           /\ body[n].id \notin IdsElsewhere(n, last.result)
           /\ cached[last.result] = body[n].id

C10_Witness ==
    /\ Done("ReportIntersection")
    /\ last.pre_len > 0
    /\ cached[last.result] = body[Len(body)].id
    /\ cached[last.hit_t] # cached[last.hit_type]

(* C11 *)

\* the declarations of the last call with opcode `op`
DeclaredWith(op) ==
    {Declared[i] : i \in {j \in 1 .. Len(Declared) : Declared[j].op = op}}

\* C11: a returned ReportIntersection call ends the block with a store
\* immediately followed by the report instruction; the store writes the Value
\* Cache id of the candidate intersection through the one variable this call
\* declared in the HitAttributeKHR storage class, and the type of that variable
\* is the pointer type (HitAttributeKHR, intersection-attribute type) that this
\* same call declared.
C11_StoreBeforeReport ==
    Done("ReportIntersection") =>
        LET n == Len(body)
            vars_declared == {v \in DeclaredWith("OpVariable") :
                                 v.key = <<"HitAttributeKHR">>}
        IN /\ Len(Emitted) = 2
           /\ body[n - 1].op = "OpStore"
           /\ body[n].op = "OpReportIntersectionKHR"
           /\ body[n - 1].operands[2] = cached[last.intersection]
           /\ Cardinality(vars_declared) = 1
           /\ \A v \in vars_declared :
                 /\ body[n - 1].operands[1] = v.id
                 /\ \E p \in DeclaredWith("OpTypePointer") :
                       /\ p.id = v.type
                       /\ p.id # v.id
                       /\ p.key = <<"HitAttributeKHR",
                                    lookup_type[last.intersection_ty]>>
                       /\ lookup_type[last.intersection_ty] # 0

C11_Witness ==
    /\ Done("ReportIntersection")
    /\ last.pre_len > 0
    /\ body[Len(body) - 1].op = "OpStore"
    /\ body[Len(body) - 1].operands[2] = cached[IntersectionHandle]
    /\ last.intersection_ty = "f32"

(* C12 *)

\* positions of the hit-attribute variable declarations of the module
HitAttributeVars ==
    {i \in 1 .. Len(declarations) :
        /\ declarations[i].op = "OpVariable"
        /\ declarations[i].key = <<"HitAttributeKHR">>}

\* C12: while the translation runs, the module holds as many hit-attribute
\* variable declarations as the block holds report instructions (one per
\* lowered ReportIntersection), their ids are pairwise distinct, and the
\* stores of the block go through pairwise distinct variables, the k-th store
\* through the k-th declared variable.
C12_StoragePerCallSite ==
    status = "ok" =>
        LET reports == Positions(body, "OpReportIntersectionKHR")
            stores == Positions(body, "OpStore")
            n == Cardinality(reports)
        IN /\ Cardinality(HitAttributeVars) = n
           /\ Cardinality({declarations[i].id : i \in HitAttributeVars}) = n
           /\ Cardinality(stores) = n
           /\ Cardinality({body[s].operands[1] : s \in stores}) = n
           /\ \A s \in stores : \A i \in HitAttributeVars :
                 (Cardinality({x \in stores : x < s})
                     = Cardinality({j \in HitAttributeVars : j < i}))
                 => body[s].operands[1] = declarations[i].id

C12_Witness ==
    /\ status = "ok"
    /\ Cardinality(Positions(body, "OpReportIntersectionKHR")) >= 2
    /\ Cardinality(HitAttributeVars) >= 2
    /\ body[Len(body)].op # "OpReportIntersectionKHR"

(* C13 *)

\* C13: a Proceed step on a query that has no Value Cache entry aborts the
\* translation and leaves the block body, the id counter, the Value Cache, the
\* declarations, the type cache and the constant cache as they were.
C13_ProceedUncachedAborts ==
    [][(/\ calls' = calls + 1
        /\ last'.op = "Proceed"
        /\ cached[last'.query] = 0)
       => /\ status' = "abort"
          /\ UNCHANGED <<body, id_gen, cached, declarations, lookup_type,
                         cached_constants>>]_vars

C13_Witness ==
    /\ last.op = "Proceed"
    /\ status = "abort"
    /\ cached[last.query] = 0
    /\ last.pre_len > 0
    /\ Len(body) = last.pre_len
    /\ id_gen = last.pre_id

(* C14 *)

\* h has no Value Cache entry (a panic leaves the cache as the call found it)
Uncached(h) == cached[h] = 0

\* get_handle_id finds no id for h
Unresolved(h) == h # AccHandle /\ Uncached(h)

\* the last call read an operand that has no Value Cache entry
MissingOperand ==
    CASE last.op = "Initialize" ->
           \/ Uncached(last.query)
           \/ Uncached(last.descriptor)
           \/ Unresolved(last.acceleration_structure)
      [] last.op \in {"Proceed", "Terminate", "GetIntersection"} ->
           Uncached(last.query)
      [] last.op = "TraceRay" ->
           \/ Unresolved(last.acceleration_structure)
           \/ Uncached(last.payload)
           \/ Uncached(last.descriptor)
      [] last.op = "ReportIntersection" ->
           \/ Uncached(last.hit_t)
           \/ Uncached(last.hit_type)
           \/ Uncached(last.intersection)
      [] OTHER -> FALSE

\* the last call needed the ray-intersection special type and it is not registered
MissingSpecialType ==
    last.op = "GetIntersection" /\ ~Uncached(last.query) /\ ~ray_intersection

AbortedOnPrerequisite ==
    status = "abort" /\ (MissingOperand \/ MissingSpecialType)

NothingEmitted == Len(body) = last.pre_len
NothingDeclared == Len(declarations) = last.pre_decls

\* C14 as stated: a call of any of the lowering operations that aborts on a
\* missing operand or on the unregistered special type has appended no
\* instruction to the block and no declaration to the module.
C14_AsStated ==
    AbortedOnPrerequisite => NothingEmitted /\ NothingDeclared

\* C14 (amended): a call that aborts on an operand without Value Cache entry
\* has appended no instruction to the block.  Initialize, advance and
\* Terminate, and get-intersection on an uncached query, have then appended no
\* declaration and allocated no id either.  Trace-ray has by then declared its
\* payload slot (unless the acceleration structure is the operand that is
\* missing) and report-intersection its hit-attribute pointer type and
\* variable.  Get-intersection that aborts on the unregistered special type has
\* appended its eleven attribute reads and no composite-construct.
C14_PartialOutputOnAbort ==
    AbortedOnPrerequisite =>
        /\ MissingOperand => NothingEmitted
        /\ (MissingOperand /\ last.op \in {"Initialize", "Proceed", "Terminate",
                                           "GetIntersection"})
              => NothingDeclared /\ id_gen = last.pre_id
        /\ (last.op = "TraceRay" /\ Unresolved(last.acceleration_structure))
              => NothingDeclared /\ id_gen = last.pre_id
        /\ (last.op = "TraceRay" /\ ~Unresolved(last.acceleration_structure))
              => Cardinality(SlotsDeclared("RayPayloadKHR")) = 1
        /\ last.op = "ReportIntersection"
              => /\ Cardinality(SlotsDeclared("HitAttributeKHR")) = 1
                 /\ Cardinality(DeclaredWith("OpTypePointer")) = 1
        /\ MissingSpecialType
              => /\ Len(Emitted) = 11
                 /\ \A i \in 1 .. 11 : Emitted[i].op = EmittedFieldOp[i]

C14_Witness ==
    /\ AbortedOnPrerequisite
    /\ MissingSpecialType
    /\ last.pre_len > 0
    /\ Len(Emitted) = 11

(* C15 *)

\* C15: a get-intersection call made while the special-types registry holds no
\* ray-intersection composite type ends in a fatal abort: it returns no id and
\* no recoverable error to its caller.
C15_UnregisteredTypeAborts ==
    (last.op = "GetIntersection" /\ ~ray_intersection) =>
        /\ status = "abort"
        /\ last.ret = 0
        /\ Positions(Emitted, "OpCompositeConstruct") = {}

C15_Witness ==
    /\ last.op = "GetIntersection"
    /\ ~ray_intersection
    /\ ~Uncached(last.query)
    /\ status = "abort"
    /\ Len(Emitted) = 11

(* C16 *)

\* C16 as stated: no call of a lowering operation yields a recoverable error
\* value; each one completes or aborts, also when the payload storage slot
\* cannot be resolved.
C16_AsStated == status \in {"ok", "abort"}

\* C16 (amended): write_ray_query_function and
\* write_ray_query_get_intersection never yield an error value, and neither
\* does report-intersection lowering.  The only error value there is comes out
\* of trace-ray lowering: the error of the payload slot resolution, returned
\* after the acceleration structure was resolved and before anything was
\* appended to the block.
C16_ErrOnlyFromVarying ==
    /\ status \in {"ok", "abort", "err"}
    /\ last.op \in {"Initialize", "Proceed", "Terminate", "GetIntersection",
                    "ReportIntersection"} => status \in {"ok", "abort"}
    /\ status = "err" =>
          /\ last.op = "TraceRay"
          /\ ~Unresolved(last.acceleration_structure)
          /\ NothingEmitted

C16_Witness ==
    /\ status = "err"
    /\ last.op = "TraceRay"
    /\ last.pre_len > 0
    /\ Uncached(last.payload)

(* C17 *)

\* the result ids the block instructions define (0: the instruction has none)
BodyIds == {body[i].id : i \in 1 .. Len(body)} \ {0}
BodyDefs == {i \in 1 .. Len(body) : body[i].id # 0}

\* the ids the declarations define
DeclarationIds == {declarations[i].id : i \in 1 .. Len(declarations)}

\* C17: identifiers are unique in the module: no two block instructions, no
\* two declarations and no instruction and declaration define the same result
\* id; every id defined is one the allocator has handed out, and the ids a call
\* defines are above the allocator's counter at the start of the call, so that
\* none is an id handed out before.
C17_IdsUnique ==
    /\ Cardinality(BodyIds) = Cardinality(BodyDefs)
    /\ Cardinality(DeclarationIds) = Len(declarations)
    /\ BodyIds \cap DeclarationIds = {}
    /\ DeclarationIds \subseteq 1 .. id_gen
    /\ BodyIds \subseteq 1 .. id_gen
    /\ \A i \in 1 .. Len(Emitted) :
          Emitted[i].id # 0 => Emitted[i].id > last.pre_id
    /\ \A i \in 1 .. Len(Declared) : Declared[i].id > last.pre_id
    /\ id_gen >= last.pre_id

C17_Witness ==
    /\ Done("ReportIntersection")
    /\ calls = 3
    /\ Positions(body, "OpCompositeConstruct") # {}
    /\ Cardinality(DeclaredWith("OpTypePointer")) = 1
    /\ Cardinality(BodyIds) > 12

(* C18 *)

\* the declarations of a type: what the interner declares and pointer types
TypeDeclarations ==
    {i \in 1 .. Len(declarations) :
        declarations[i].op \in {"OpType", "OpTypePointer"}}

\* C18: the declaration section holds no two type declarations for
\* structurally identical types (the same opcode and the same structure), the
\* hit-attribute pointer type of ReportIntersection included.
C18_NoDuplicateTypes ==
    \A i, j \in TypeDeclarations :
        (/\ declarations[i].op = declarations[j].op
         /\ declarations[i].key = declarations[j].key) => i = j

(* C19 *)

\* the declarations the interner has made of the type `key`
InternerDeclarations(key) ==
    {i \in 1 .. Len(declarations) :
        declarations[i].op = "OpType" /\ declarations[i].key = key}

\* the ids under which the descriptor fields 0 and 1 were extracted: what
\* get_type_id returned for u32 to the calls so far
U32TypeIdsUsed ==
    {body[i].type : i \in {j \in 1 .. Len(body) :
                             /\ body[j].op = "OpCompositeExtract"
                             /\ body[j].operands[2] \in {0, 1}}}

\* C19: across every step, a type the interner already knows keeps its id and
\* gets no further declaration; a type requested for the first time gets an
\* id the allocator had not handed out, recorded in the lookup table and
\* declared exactly once; no type is ever declared twice by the interner, and
\* every call that asked for u32 got the same id.
C19_InterningIdempotent ==
    [][\A key \in TypeKeys :
          /\ lookup_type[key] # 0 =>
                /\ lookup_type'[key] = lookup_type[key]
                /\ InternerDeclarations(key)' = InternerDeclarations(key)
          /\ (lookup_type[key] = 0 /\ lookup_type'[key] # 0) =>
                /\ lookup_type'[key] > id_gen
                /\ lookup_type'[key] <= id_gen'
                /\ InternerDeclarations(key) = {}
                /\ \E i \in InternerDeclarations(key)' :
                      /\ InternerDeclarations(key)' = {i}
                      /\ declarations'[i].id = lookup_type'[key]
          /\ Cardinality(InternerDeclarations(key)') <= 1
          /\ U32TypeIdsUsed' \subseteq {lookup_type'["u32"]}]_vars

C19_Witness ==
    /\ Done("TraceRay")
    /\ last.pre_len >= 7
    /\ body[1].op = "OpCompositeExtract"
    /\ Len(declarations) > 2
    /\ declarations[1].key = "u32"
    /\ declarations[2].key = "f32"
    /\ InternerDeclarations("u32") = {1}
    /\ U32TypeIdsUsed = {declarations[1].id}
    /\ Emitted[1].type = body[1].type

(* C20 *)

\* C20: the Value Cache is single-assignment: across every step, a handle that
\* has an entry keeps it with the same id; a call that would record its result
\* under a handle that already has an entry (an advance or a report whose
\* operands are all cached) aborts and leaves the whole cache as it was.
C20_CacheSingleAssignment ==
    [][/\ \A h \in Handles : cached[h] # 0 => cached'[h] = cached[h]
       /\ (/\ calls' = calls + 1
           /\ last'.op \in {"Proceed", "ReportIntersection"}
           /\ cached[last'.result] # 0)
          => /\ status' \in {"abort"}
             /\ cached' = cached]_vars

C20_Witness ==
    /\ last.op \in {"Proceed", "ReportIntersection"}
    /\ status = "abort"
    /\ ~MissingOperand
    /\ cached[last.result] # 0
    /\ cached[last.result] <= last.pre_id
    /\ \E h \in ResultHandles \ {last.result} : cached[h] # 0

(* C21 *)

\* C21: the block body is append-only: across every step, whatever call is
\* lowered and however it ends, the body before the step is a prefix of the
\* body after it.
C21_BodyAppendOnly ==
    [][/\ Len(body') >= Len(body)
       /\ SubSeq(body', 1, Len(body)) = body]_vars

C21_Witness ==
    /\ calls >= 2
    /\ last.pre_len >= 7
    /\ Len(body) > last.pre_len
    /\ body[1].op = "OpCompositeExtract"
    /\ body[last.pre_len].op = "OpRayQueryInitializeKHR"
    /\ last.op = "GetIntersection"

(* C22 *)

\* the writer with the caches and the allocator of the current state and
\* nothing emitted yet
FreshWriter == [Writer EXCEPT !.body = <<>>, !.declarations = <<>>]

\* the lowering of the statement `c` on the writer `w`
LowerCall(w, c, varying_fails) ==
    CASE c.op = "Initialize" ->
           write_ray_query_function(w, c.query,
               [tag |-> "Initialize",
                acceleration_structure |-> c.acceleration_structure,
                descriptor |-> c.descriptor])
      [] c.op = "Proceed" ->
           write_ray_query_function(w, c.query,
               [tag |-> "Proceed", result |-> c.result])
      [] c.op = "Terminate" ->
           write_ray_query_function(w, c.query, [tag |-> "Terminate"])
      [] c.op = "GetIntersection" ->
           write_ray_query_get_intersection(w, c.query)
      [] c.op = "TraceRay" ->
           write_ray_tracing_function(w,
               [tag |-> "TraceRay",
                acceleration_structure |-> c.acceleration_structure,
                descriptor |-> c.descriptor, payload |-> c.payload,
                payload_ty |-> c.payload_ty], varying_fails)
      [] c.op = "ReportIntersection" ->
           write_ray_tracing_function(w,
               [tag |-> "ReportIntersection", hit_t |-> c.hit_t,
                hit_type |-> c.hit_type, intersection |-> c.intersection,
                intersection_ty |-> c.intersection_ty, result |-> c.result],
               FALSE)

\* the step appended to the block and to the declarations what `r` holds, and
\* left the caches, the allocator and the outcome as in `r`
StepIs(r) ==
    /\ body' = body \o r.body
    /\ declarations' = declarations \o r.declarations
    /\ id_gen' = r.id_gen
    /\ lookup_type' = r.lookup_type
    /\ cached_constants' = r.cached_constants
    /\ cached' = r.cached
    /\ status' = r.status

TypeKeyOf(id) ==
    IF \E k \in TypeKeys : lookup_type[k] = id
    THEN CHOOSE k \in TypeKeys : lookup_type[k] = id
    ELSE "none"

\* the (index, result type) pairs of the composite-extracts of the last call,
\* in the order they were emitted
ExtractPairs ==
    [i \in 1 .. Cardinality(Positions(Emitted, "OpCompositeExtract")) |->
        <<Emitted[i].operands[2], TypeKeyOf(Emitted[i].type)>>]

\* the descriptor field whose extract defined `id` in the last call
FieldIndexOf(id) ==
    IF \E i \in Positions(Emitted, "OpCompositeExtract") : Emitted[i].id = id
    THEN Emitted[CHOOSE i \in Positions(Emitted, "OpCompositeExtract") :
                    Emitted[i].id = id].operands[2]
    ELSE -1

\* where the instruction that consumes the descriptor takes each quantity:
\* OpRayQueryInitializeKHR (query, acceleration structure, flags, mask, origin,
\* t_min, direction, t_max) and OpTraceRayKHR (acceleration structure, flags,
\* mask, three selectors, origin, t_min, direction, t_max, payload)
RolePositions(op) ==
    IF op = "OpRayQueryInitializeKHR"
    THEN [flags |-> 3, cull_mask |-> 4, origin |-> 5, tmin |-> 6, dir |-> 7,
          tmax |-> 8]
    ELSE [flags |-> 2, cull_mask |-> 3, origin |-> 7, tmin |-> 8, dir |-> 9,
          tmax |-> 10]

\* the instructions of the last call that consume the descriptor fields
Consumers ==
    Positions(Emitted, "OpRayQueryInitializeKHR")
       \cup Positions(Emitted, "OpTraceRayKHR")

\* the descriptor field bound to each quantity by the consumer at position c
RoleFields(c) ==
    [r \in {"flags", "cull_mask", "origin", "tmin", "dir", "tmax"} |->
        FieldIndexOf(Emitted[c].operands[RolePositions(Emitted[c].op)[r]])]

\* C23: a returned trace-ray call and a returned initialize call extract the
\* descriptor alike: each emits the composite-extracts (0:u32, 1:u32, 2:f32,
\* 3:f32, 4:vec3<f32>, 5:vec3<f32>) in that order, and the one instruction
\* that consumes them takes ray flags from field 0, cull mask from 1, t_min
\* from 2, t_max from 3, origin from 4 and direction from 5.
C23_SameDescriptorFields ==
    (Done("Initialize") \/ Done("TraceRay")) =>
        /\ ExtractPairs = <<<<0, "u32">>, <<1, "u32">>, <<2, "f32">>,
                            <<3, "f32">>, <<4, "vec3<f32>">>,
                            <<5, "vec3<f32>">>>>
        /\ Cardinality(Consumers) = 1
        /\ \A c \in Consumers :
              RoleFields(c) = [flags |-> 0, cull_mask |-> 1, tmin |-> 2,
                               tmax |-> 3, origin |-> 4, dir |-> 5]

C23_Witness ==
    /\ Done("TraceRay")
    /\ Positions(body, "OpRayQueryInitializeKHR") # {}
    /\ \E c \in Consumers : RoleFields(c)["tmax"] = 3
    /\ \A i \in 1 .. 6 :
          /\ body[i].op = "OpCompositeExtract"
          /\ body[i].type = Emitted[i].type
          /\ body[i].operands[2] = Emitted[i].operands[2]

(* C24 *)

\* the values a descriptor field takes in the round trip
FieldValues == {"x", "y"}

\* the descriptor composite built from six field values: field i holds the
\* i-th of flags, cull_mask, t_min, t_max, origin, direction
RayDesc(flags, cull_mask, tmin, tmax, origin, dir) ==
    [index \in 0 .. 5 |->
        CASE index = 0 -> flags
          [] index = 1 -> cull_mask
          [] index = 2 -> tmin
          [] index = 3 -> tmax
          [] index = 4 -> origin
          [] index = 5 -> dir]

\* what OpCompositeExtract with one index yields on a composite value
CompositeExtractValue(composite, index) ==
    IF index \in DOMAIN composite THEN composite[index] ELSE "undefined"

\* the value the id `id`, defined by an extract of the last call, holds when
\* the descriptor operand holds `composite`
ExtractedValue(composite, id) ==
    CompositeExtractValue(composite, FieldIndexOf(id))

\* the value that reaches the consumer at position c for the quantity `role`
RoleValue(composite, c, role) ==
    ExtractedValue(composite,
        Emitted[c].operands[RolePositions(Emitted[c].op)[role]])

\* C24: round trip of the ray descriptor: whatever six values the descriptor
\* is built from, the extracts a returned initialize or trace-ray call emitted
\* read the cached descriptor, and the values they hand to the consuming
\* instruction as ray flags, cull mask, t_min, t_max, origin and direction are
\* the values the descriptor was built with for those fields.
C24_DescriptorRoundTrip ==
    (Done("Initialize") \/ Done("TraceRay")) =>
        /\ \A i \in Positions(Emitted, "OpCompositeExtract") :
              Emitted[i].operands[1] = cached[last.descriptor]
        /\ Consumers # {}
        /\ \A c \in Consumers :
           \E field \in {RoleFields(c)} :
           \A flags, cull_mask, tmin, tmax, origin, dir \in FieldValues :
              \E d \in {RayDesc(flags, cull_mask, tmin, tmax, origin, dir)} :
                 /\ CompositeExtractValue(d, field["flags"]) = flags
                 /\ CompositeExtractValue(d, field["cull_mask"]) = cull_mask
                 /\ CompositeExtractValue(d, field["tmin"]) = tmin
                 /\ CompositeExtractValue(d, field["tmax"]) = tmax
                 /\ CompositeExtractValue(d, field["origin"]) = origin
                 /\ CompositeExtractValue(d, field["dir"]) = dir

C24_Witness ==
    /\ Done("Initialize")
    /\ last.pre_len > 0
    /\ \E c \in Consumers :
          /\ RoleValue(RayDesc("x", "y", "x", "y", "x", "y"), c, "tmax") = "y"
          /\ RoleValue(RayDesc("x", "y", "x", "y", "x", "y"), c, "origin") = "x"

(* C26 *)

\* the ids the last call defined, in the block or in the declarations
IdsDefinedByCall ==
    ({Emitted[i].id : i \in 1 .. Len(Emitted)} \ {0})
       \cup {Declared[i].id : i \in 1 .. Len(Declared)}

\* C26: the allocator hands out the next unused id each time: its counter
\* never goes below the value it had when the call began; the ids a returned
\* call defined are exactly the ids between the counter at the start of the
\* call and the counter at its end, with no gap; the ids a call that did not
\* return defined lie in that range; and each result id the call put into the
\* block is above the result id of every instruction before it.
C26_IdsDenseIncreasing ==
    /\ id_gen >= last.pre_id
    /\ calls > 0 => IdsDefinedByCall \subseteq (last.pre_id + 1) .. id_gen
    /\ (calls > 0 /\ status = "ok")
          => IdsDefinedByCall = (last.pre_id + 1) .. id_gen
    /\ \A j \in (last.pre_len + 1) .. Len(body) :
          body[j].id # 0 =>
             \A i \in 1 .. (j - 1) : body[i].id < body[j].id

C26_Witness ==
    /\ Done("ReportIntersection")
    /\ calls >= 2
    /\ id_gen >= last.pre_id + 4
    /\ Cardinality(IdsDefinedByCall) >= 4
    /\ Cardinality(BodyDefs) >= 8

(* C27 *)

\* the operands of an instruction that are ids (the index of a
\* composite-extract is a literal)
IdOperands(instruction) ==
    IF instruction.op = "OpCompositeExtract"
    THEN {instruction.operands[1]}
    ELSE {instruction.operands[k] : k \in 1 .. Len(instruction.operands)}

\* the ids the Value Cache holds
CachedIds == {cached[h] : h \in Handles} \ {0}

\* the ids of the variables and constants the writer has declared, and of the
\* global the acceleration structure resolves to
WriterIds ==
    {declarations[k].id :
        k \in {n \in 1 .. Len(declarations) :
                  declarations[n].op \in {"OpVariable", "OpConstant"}}}
       \cup {get_handle_id([Writer EXCEPT !.status = "ok"], AccHandle).ret}

\* the type ids the interner holds
TypeIds == {lookup_type[k] : k \in TypeKeys} \ {0}

\* C27: definition before use: of the instructions a call appended to the
\* block (every instruction of the block is one, in the state its call left),
\* no id operand is the null id, none is the result id of the instruction
\* itself or of a later instruction, and every one is a Value Cache entry, the
\* id of a variable, constant or global of the writer, or the result id of an
\* earlier instruction of the block; every result type is a type id the
\* interner holds.  This holds also for what a call that did not return left
\* in the block.
C27_DefinedBeforeUse ==
    \E known \in {CachedIds \cup WriterIds} :
    \A i \in (last.pre_len + 1) .. Len(body) :
        /\ body[i].type # 0 => body[i].type \in TypeIds
        /\ \E earlier \in {{body[j].id : j \in 1 .. (i - 1)}} :
           \E later \in {{body[j].id : j \in i .. Len(body)}} :
           \A x \in IdOperands(body[i]) :
              /\ x # 0
              /\ x \notin later
              /\ x \in known \cup earlier

C27_Witness ==
    /\ calls = 3
    /\ status = "ok"
    /\ Positions(body, "OpCompositeConstruct") # {}
    /\ Positions(body, "OpTraceRayKHR") # {}
    /\ Positions(body, "OpStore") # {}
    /\ \E i \in Positions(body, "OpStore") :
          body[i].operands[1] \in WriterIds \ CachedIds

(* C28 *)

\* C28: frame conditions of the Value Cache: a step that lowers initialize,
\* terminate, get-intersection or trace-ray leaves the whole cache as it was
\* (get-intersection hands its id to the caller only); a step that lowers
\* advance or report-intersection and returns has written one entry, that of
\* its `result` handle, which had none, with an id allocated in the call, and
\* has left every other entry as it was; if it does not return it has written
\* none.
C28_CacheFrame ==
    [][calls' = calls + 1 =>
          /\ last'.op \in {"Initialize", "Terminate", "GetIntersection",
                           "TraceRay"} => cached' = cached
          /\ (last'.op = "GetIntersection" /\ status' = "ok") =>
                /\ last'.ret > id_gen
                /\ \A h \in Handles : cached'[h] # last'.ret
          /\ (last'.op \in {"Proceed", "ReportIntersection"} /\ status' = "ok") =>
                /\ cached[last'.result] = 0
                /\ cached'[last'.result] > id_gen
                /\ cached'[last'.result] <= id_gen'
                /\ \A h \in Handles \ {last'.result} : cached'[h] = cached[h]
          /\ (last'.op \in {"Proceed", "ReportIntersection"} /\ status' # "ok") =>
                cached' = cached]_vars

C28_Witness ==
    /\ calls = 3
    /\ Done("ReportIntersection")
    /\ cached[last.result] > last.pre_id
    /\ \E h \in ResultHandles \ {last.result} :
          cached[h] # 0 /\ cached[h] <= last.pre_id
    /\ Positions(body, "OpTraceRayKHR") # {}

(* C29 *)

\* the last call was an advance whose result handle had an entry already
ResultTaken ==
    /\ last.op = "Proceed"
    /\ cached[last.result] # 0
    /\ cached[last.result] <= last.pre_id

\* what the block held before the last call
BodyBefore == SubSeq(body, 1, last.pre_len)

\* C29: the lowering does not check the life cycle of a ray query: whatever
\* was lowered before, an initialize, advance or terminate whose operands are
\* cached (and, for advance, whose result is not) returns, and appends the
\* same shape: initialize six extracts and one initialize instruction on the
\* cached query id, advance one advance instruction on the cached query id,
\* terminate nothing.
C29_LifecycleUnchecked ==
    (/\ last.op \in {"Initialize", "Proceed", "Terminate"}
     /\ ~MissingOperand
     /\ ~ResultTaken) =>
        /\ status = "ok"
        /\ last.op = "Initialize" =>
              /\ Len(Emitted) = 7
              /\ \A i \in 1 .. 6 : Emitted[i].op = "OpCompositeExtract"
              /\ Emitted[7].op = "OpRayQueryInitializeKHR"
              /\ Emitted[7].operands[1] = cached[last.query]
        /\ last.op = "Proceed" =>
              /\ Len(Emitted) = 1
              /\ Emitted[1].op = "OpRayQueryProceedKHR"
              /\ Emitted[1].operands = <<cached[last.query]>>
              /\ Emitted[1].id = cached[last.result]
        /\ last.op = "Terminate" => Len(Emitted) = 0

\* an advance lowered before any initialize, then an initialize, then another
\* initialize of the same query
C29_Witness ==
    /\ calls = 3
    /\ Done("Initialize")
    /\ Len(BodyBefore) = 8
    /\ BodyBefore[1].op = "OpRayQueryProceedKHR"
    /\ BodyBefore[8].op = "OpRayQueryInitializeKHR"
    /\ BodyBefore[8].operands[1] = Emitted[7].operands[1]

(* C30 *)

\* C30: in the water_rtx example every render call counts a frame, whether it
\* draws or not; a render call submits exactly when `active` is Some(a) with
\* a below the frame count it has just reached; after a resize to width 0 and
\* height 0 no render call submits until a resize to another size; and the
\* first render call after init or after a resize to another size submits.
C30_FrameGate ==
    /\ current_frame = frame_log.renders
    /\ frame_log.op = "render" =>
          (frame_log.submitted <=>
              (active # None /\ active[1] < current_frame))
    /\ (frame_log.op = "render" /\ frame_log.resized = "zero") =>
          ~frame_log.submitted
    /\ frame_log.resized = "zero" => active = None
    /\ (frame_log.op = "render" /\ frame_log.resized # "zero"
          /\ frame_log.since = 1) => frame_log.submitted

C30_Witness ==
    /\ frame_log.op = "render"
    /\ frame_log.resized = "nonzero"
    /\ frame_log.since = 1
    /\ frame_log.submitted
    /\ frame_log.skipped >= 2
    /\ active = Some(current_frame - 1)

====
